---- MODULE Spec2Model ----
(***************************************************************************)
(* TokenBlockDataset (fairseq/data/token_block_dataset.py): a flat token   *)
(* stream is cut into blocks by one of three break modes; prefetch copies  *)
(* the requested blocks into one buffer and __getitem__ serves a block     *)
(* (and its shifted views) out of that buffer.                             *)
(*                                                                         *)
(* Positions, block ids and buffer offsets are 0-based as in the source; a *)
(* TLA+ sequence holds element k at index k+1.                             *)
(***************************************************************************)
EXTENDS Integers, Sequences, FiniteSets, TLC

\* ---- bounds of the block-table specification (SpecIndex) ----
MaxUnits == 4
MaxUnitSize == 5
MaxBlockSize == 4
\* ---- bounds of the cache specification (Spec) ----
CacheMaxUnits == 3
CacheMaxUnitSize == 2
CacheBlockSize == 2
MaxIds == 2
\* ---- bounds of the short-stream specification (SpecShort) ----
ShortMaxUnits == 2
ShortMaxUnitSize == 2
MaxMissing == 1
LongMaxIds == 3

VARIABLES
    pc,              \* "new" | "walk" | "ready" | "ValueError"
    ds_sizes,        \* ds.sizes: the unit (sentence) lengths
    tokens,          \* the token stream behind ds.read_into
    block_size,
    break_mode,
    pad,
    eos,
    include_targets,
    slice_indices,   \* self.slice_indices: sequence of <<start, end>>
    sizes,           \* self.sizes: sequence of block lengths
    tok_idx,         \* locals of the 'complete' loop
    sz_idx,
    curr_size,
    cache,           \* self.cache
    cache_index,     \* self.cache_index: block id -> <<s, e>>
    indices,         \* the list handed to the last prefetch, as prefetch left it
    ret              \* what the last call returned or raised

vars == <<pc, ds_sizes, tokens, block_size, break_mode, pad, eos,
          include_targets, slice_indices, sizes, tok_idx, sz_idx, curr_size,
          cache, cache_index, indices, ret>>

ctorArgs == <<ds_sizes, tokens, block_size, break_mode, pad, eos, include_targets>>
walkVars == <<tok_idx, sz_idx, curr_size>>
cacheVars == <<cache, cache_index, indices, ret>>

\* ---------------------------------------------------------------------
\* helpers
\* ---------------------------------------------------------------------
RECURSIVE SumSeq(_)
SumSeq(q) == IF q = <<>> THEN 0 ELSE Head(q) + SumSeq(Tail(q))

Min(a, b) == IF a <= b THEN a ELSE b

\* all sequences over S of length 0..n
SeqsUpTo(S, n) == UNION {[1..k -> S] : k \in 0..n}

\* math.ceil(a / b) for a >= 0, b > 0
CeilDiv(a, b) == (a + b - 1) \div b

\* a[lo:hi] with Python's slice rules: a negative bound counts from the end,
\* both bounds are clipped to the sequence, an empty range gives <<>>
PyBound(x, n) == IF x < 0 THEN (IF x + n < 0 THEN 0 ELSE x + n)
                 ELSE (IF x > n THEN n ELSE x)

PySlice(a, lo, hi) ==
    LET l == PyBound(lo, Len(a))
        h == PyBound(hi, Len(a))
    IN IF h <= l THEN <<>> ELSE [k \in 1..(h - l) |-> a[l + k]]

\* the token streams the constructor is given: "words" numbers every position
\* with its own word id (ids 0..2 are reserved, pad = 1, eos = 2), "sentences"
\* is the same stream with eos as the last token of every unit
RECURSIVE UnitEnds(_, _, _)
UnitEnds(szs, k, curr) ==
    IF k > Len(szs) THEN {}
    ELSE {curr + szs[k]} \cup UnitEnds(szs, k + 1, curr + szs[k])

Stream(szs, style) ==
    [k \in 1..SumSeq(szs) |->
        IF style = "sentences" /\ k \in UnitEnds(szs, 1, 0) THEN 2 ELSE 2 + k]

StreamStyles == {"words", "sentences"}

\* ret.kind: "new" (nothing called yet), "None" (prefetch returned),
\* "OutOfRange" (prefetch raised what read_into raised), "item" / "tuple"
\* (what __getitem__ returned), "KeyError" (what it raised)
NoRet == [kind |-> "new", index |-> 0, source |-> <<>>, target |-> <<>>,
          past_target |-> <<>>]

\* ---------------------------------------------------------------------
\* __init__
\* ---------------------------------------------------------------------
\* break_mode None / 'none'
\* (mutant of block_at: the end of the block is not clipped to the stream)
block_at_unclipped(i, bs, total_size) == <<i * bs, i * bs + bs>>

block_at(i, bs, total_size) == <<i * bs, Min(i * bs + bs, total_size)>>

NoneSlices(szs, bs) ==
    LET total_size == SumSeq(szs)
        length == CeilDiv(total_size, bs)
    IN [k \in 1..length |-> block_at(k - 1, bs, total_size)]

\* break_mode 'eos': one block per unit, empty units skipped
RECURSIVE EosWalk(_, _, _, _)
EosWalk(szs, k, curr, acc) ==
    IF k > Len(szs) THEN acc
    ELSE EosWalk(szs, k + 1, curr + szs[k],
                 IF szs[k] > 0 THEN Append(acc, <<curr, curr + szs[k]>>) ELSE acc)

\* (mutant of EosSlices: an empty unit gets a block too)
RECURSIVE EosWalkKeepEmpty(_, _, _, _)
EosWalkKeepEmpty(szs, k, curr, acc) ==
    IF k > Len(szs) THEN acc
    ELSE EosWalkKeepEmpty(szs, k + 1, curr + szs[k],
                          Append(acc, <<curr, curr + szs[k]>>))

EosSlices_KeepEmpty(szs, bs) == EosWalkKeepEmpty(szs, 1, 0, <<>>)

\* (mutant of EosSlices: the cursor steps over the eos token an empty unit is
\* taken to stand for)
RECURSIVE EosWalkStepOver(_, _, _, _)
EosWalkStepOver(szs, k, curr, acc) ==
    IF k > Len(szs) THEN acc
    ELSE EosWalkStepOver(szs, k + 1, IF szs[k] > 0 THEN curr + szs[k] ELSE curr + 1,
                         IF szs[k] > 0 THEN Append(acc, <<curr, curr + szs[k]>>) ELSE acc)

EosSlices_StepOver(szs, bs) == EosWalkStepOver(szs, 1, 0, <<>>)

EosSlices(szs, bs) == EosWalk(szs, 1, 0, <<>>)

\* break_mode 'complete': the test of the loop body
\* (mutant of TakeUnit: the running size is tested before the unit is added)
TakeUnit_Before(curr, sz, bs) == curr < bs \/ curr = 0

\* (mutant of TakeUnit: a unit that fills the block exactly is not taken)
TakeUnit_Strict(curr, sz, bs) == curr + sz < bs \/ curr = 0

\* (mutant of TakeUnit: an empty running block gets no special treatment)
TakeUnit_NoEmptyRule(curr, sz, bs) == curr + sz <= bs

TakeUnit(curr, sz, bs) == curr + sz <= bs \/ curr = 0

\* self.sizes = np.array([e - s for s, e in self.slice_indices])
BlockLengths(sl) == [k \in 1..Len(sl) |-> sl[k][2] - sl[k][1]]

ConstructNone ==
    /\ pc = "new"
    /\ break_mode \in {"None", "none"}
    /\ slice_indices' = NoneSlices(ds_sizes, block_size)
    /\ sizes' = BlockLengths(slice_indices')
    /\ pc' = "ready"
    /\ UNCHANGED <<ctorArgs, walkVars, cacheVars>>

ConstructEos ==
    /\ pc = "new"
    /\ break_mode = "eos"
    /\ slice_indices' = EosSlices(ds_sizes, block_size)
    /\ sizes' = BlockLengths(slice_indices')
    /\ pc' = "ready"
    /\ UNCHANGED <<ctorArgs, walkVars, cacheVars>>

ConstructInvalid ==
    /\ pc = "new"
    /\ break_mode \notin {"None", "none", "complete", "eos"}
    /\ pc' = "ValueError"
    /\ UNCHANGED <<ctorArgs, slice_indices, sizes, walkVars, cacheVars>>

CompleteEnter ==
    /\ pc = "new"
    /\ break_mode = "complete"
    /\ tok_idx' = 0
    /\ sz_idx' = 0
    /\ curr_size' = 0
    /\ pc' = "walk"
    /\ UNCHANGED <<ctorArgs, slice_indices, sizes, cacheVars>>

CompleteTake ==
    /\ pc = "walk"
    /\ sz_idx < Len(ds_sizes)
    /\ TakeUnit(curr_size, ds_sizes[sz_idx + 1], block_size)
    /\ curr_size' = curr_size + ds_sizes[sz_idx + 1]
    /\ sz_idx' = sz_idx + 1
    /\ UNCHANGED <<pc, ctorArgs, slice_indices, sizes, tok_idx, cacheVars>>

\* (mutant of CompleteClose: the cursor is not advanced past the closed block)
CompleteClose_NoAdvance ==
    /\ pc = "walk"
    /\ sz_idx < Len(ds_sizes)
    /\ ~TakeUnit(curr_size, ds_sizes[sz_idx + 1], block_size)
    /\ slice_indices' = Append(slice_indices, <<tok_idx, tok_idx + curr_size>>)
    /\ curr_size' = 0
    /\ UNCHANGED <<pc, ctorArgs, sizes, tok_idx, sz_idx, cacheVars>>

CompleteClose ==
    /\ pc = "walk"
    /\ sz_idx < Len(ds_sizes)
    /\ ~TakeUnit(curr_size, ds_sizes[sz_idx + 1], block_size)
    /\ slice_indices' = Append(slice_indices, <<tok_idx, tok_idx + curr_size>>)
    /\ tok_idx' = tok_idx + curr_size
    /\ curr_size' = 0
    /\ UNCHANGED <<pc, ctorArgs, sizes, sz_idx, cacheVars>>

\* (mutant of CompleteExit: the remainder after the last unit is not emitted)
CompleteExit_DropTail ==
    /\ pc = "walk"
    /\ sz_idx >= Len(ds_sizes)
    /\ sizes' = BlockLengths(slice_indices)
    /\ tok_idx' = 0
    /\ sz_idx' = 0
    /\ curr_size' = 0
    /\ pc' = "ready"
    /\ UNCHANGED <<ctorArgs, slice_indices, cacheVars>>

CompleteExit ==
    /\ pc = "walk"
    /\ sz_idx >= Len(ds_sizes)
    /\ slice_indices' = IF curr_size > 0
                        THEN Append(slice_indices, <<tok_idx, tok_idx + curr_size>>)
                        ELSE slice_indices
    /\ sizes' = BlockLengths(slice_indices')
    /\ tok_idx' = 0
    /\ sz_idx' = 0
    /\ curr_size' = 0
    /\ pc' = "ready"
    /\ UNCHANGED <<ctorArgs, cacheVars>>

Construct ==
    \/ ConstructNone
    \/ ConstructEos
    \/ ConstructInvalid
    \/ CompleteEnter
    \/ CompleteTake
    \/ CompleteClose
    \/ CompleteExit

\* ---------------------------------------------------------------------
\* prefetch
\* ---------------------------------------------------------------------
\* list.sort(): insertion of each element into an ascending list
RECURSIVE Insert(_, _)
Insert(x, q) ==
    IF q = <<>> THEN <<x>>
    ELSE IF x <= Head(q) THEN <<x>> \o q
    ELSE <<Head(q)>> \o Insert(x, Tail(q))

RECURSIVE SortList(_)
SortList(q) == IF q = <<>> THEN <<>> ELSE Insert(Head(q), SortList(Tail(q)))

\* (mutant of Sort: the list is left in the caller's order)
Sort_Unsorted(q) == q

Sort(q) == SortList(q)

\* the first loop: total_size += e - s for every idx of the list
RECURSIVE TotalSize(_, _)
TotalSize(ids, sl) ==
    IF ids = <<>> THEN 0
    ELSE (sl[Head(ids) + 1][2] - sl[Head(ids) + 1][1]) + TotalSize(Tail(ids), sl)

\* np.empty(total_size): a new buffer of whatever the allocation holds; g is
\* that content
Empty(total_size, g) == [k \in 1..total_size |-> g]

\* what an allocation may hold: no token (0) or a left-over token value
Garbage == {0, 2}

\* ds.read_into(s, dst): tokens [s, s + len(dst)) of the stream; the read
\* fails as a whole (OutOfRange) when the range leaves the stream
ReadFails(toks, s, n) == s + n > Len(toks)

ReadInto(toks, s, n) == [k \in 1..n |-> toks[s + k]]

\* self.cache[start:start + e - s]: the destination of the read is a slice of
\* the buffer, so it is clipped to the buffer; its length
DstLen(buf, start, s, e) ==
    LET lo == PyBound(start, Len(buf))
        hi == PyBound(start + e - s, Len(buf))
    IN IF hi > lo THEN hi - lo ELSE 0

\* ds.read_into(s, self.cache[start:start + e - s])
WriteBlock(buf, start, s, e) ==
    LET lo == PyBound(start, Len(buf))
        data == ReadInto(tokens, s, DstLen(buf, start, s, e))
    IN [k \in 1..Len(buf) |->
          IF lo < k /\ k <= lo + Len(data) THEN data[k - lo] ELSE buf[k]]

\* (mutant of Fill: the index records the block's range in the stream, not in
\* the buffer)
RECURSIVE FillGlobal(_, _, _, _, _, _)
FillGlobal(ids, k, start, buf, idx, sl) ==
    IF k > Len(ids) THEN [cache |-> buf, cache_index |-> idx, raised |-> FALSE]
    ELSE LET s == sl[ids[k] + 1][1]
             e == sl[ids[k] + 1][2]
         IN IF ReadFails(tokens, s, DstLen(buf, start, s, e))
            THEN [cache |-> buf, cache_index |-> idx, raised |-> TRUE]
            ELSE FillGlobal(ids, k + 1, start + (e - s),
                            WriteBlock(buf, start, s, e),
                            (ids[k] :> <<s, e>>) @@ idx,
                            sl)

\* the second loop, from position k of the sorted list on: each block is read
\* into the next free region of the buffer and its range recorded; a read that
\* fails ends the loop and the call with what was done so far
RECURSIVE FillLoop(_, _, _, _, _, _)
FillLoop(ids, k, start, buf, idx, sl) ==
    IF k > Len(ids) THEN [cache |-> buf, cache_index |-> idx, raised |-> FALSE]
    ELSE LET s == sl[ids[k] + 1][1]
             e == sl[ids[k] + 1][2]
         IN IF ReadFails(tokens, s, DstLen(buf, start, s, e))
            THEN [cache |-> buf, cache_index |-> idx, raised |-> TRUE]
            ELSE FillLoop(ids, k + 1, start + (e - s),
                          WriteBlock(buf, start, s, e),
                          (ids[k] :> <<start, start + (e - s)>>) @@ idx,
                          sl)

Fill(ids, k, start, buf, idx, sl) == FillLoop(ids, k, start, buf, idx, sl)

\* (mutant of PrefetchResult: the blocks are appended to the buffer of the
\* previous call instead of a new one)
PrefetchResult_Append(arg, g) ==
    LET sorted == Sort(arg)
        total_size == TotalSize(sorted, slice_indices)
        filled == Fill(sorted, 1, Len(cache), cache \o Empty(total_size, g),
                       cache_index, slice_indices)
    IN [indices |-> sorted, cache |-> filled.cache,
        cache_index |-> filled.cache_index, raised |-> filled.raised]

\* the body of prefetch on the list arg, the allocation holding g: what it
\* leaves in indices, self.cache and self.cache_index, and whether it raised
PrefetchResult(arg, g) ==
    LET sorted == Sort(arg)
        total_size == TotalSize(sorted, slice_indices)
        filled == Fill(sorted, 1, 0, Empty(total_size, g), cache_index,
                       slice_indices)
    IN [indices |-> sorted, cache |-> filled.cache,
        cache_index |-> filled.cache_index, raised |-> filled.raised]

\* prefetch; when no read fails every cell of the allocation is overwritten,
\* so its content shows only in a call that raised
Prefetch(arg) ==
    /\ pc = "ready"
    /\ \E r0 \in {PrefetchResult(arg, 0)} :
       \E r \in (IF r0.raised THEN {PrefetchResult(arg, g) : g \in Garbage}
                 ELSE {r0}) :
          /\ indices' = r.indices
          /\ cache' = r.cache
          /\ cache_index' = r.cache_index
          /\ ret' = [NoRet EXCEPT !.kind = IF r.raised THEN "OutOfRange"
                                           ELSE "None"]
    /\ UNCHANGED <<pc, ctorArgs, slice_indices, sizes, walkVars>>

\* ---------------------------------------------------------------------
\* __getitem__
\* ---------------------------------------------------------------------
\* (mutant of GetItemOf: no sentinel for a block at the start of the buffer, the
\* source is always the buffer shifted by one)
GetItemOf_NoSentinel(cch, idx, index) ==
    IF index \notin DOMAIN idx
    THEN [kind |-> "KeyError", index |-> index, source |-> <<>>,
          target |-> <<>>, past_target |-> <<>>]
    ELSE LET s == idx[index][1]
             e == idx[index][2]
         IN [kind |-> IF include_targets THEN "tuple" ELSE "item",
             index |-> index,
             source |-> IF include_targets THEN PySlice(cch, s - 1, e - 1)
                        ELSE <<>>,
             target |-> PySlice(cch, s, e),
             past_target |-> IF include_targets THEN PySlice(cch, s - 2, e - 2)
                             ELSE <<>>]

\* (mutant of GetItemOf: the sentinel goes to block 0 of the stream, not to
\* the block at the start of the buffer)
GetItemOf_GlobalSentinel(cch, idx, index) ==
    IF index \notin DOMAIN idx
    THEN [kind |-> "KeyError", index |-> index, source |-> <<>>,
          target |-> <<>>, past_target |-> <<>>]
    ELSE LET s == idx[index][1]
             e == idx[index][2]
         IN [kind |-> IF include_targets THEN "tuple" ELSE "item",
             index |-> index,
             source |-> IF ~include_targets THEN <<>>
                        ELSE IF index = 0
                        THEN <<eos>> \o PySlice(cch, s, e - 1)
                        ELSE PySlice(cch, s - 1, e - 1),
             target |-> PySlice(cch, s, e),
             past_target |-> IF ~include_targets THEN <<>>
                             ELSE IF index = 0
                             THEN <<pad, eos>> \o PySlice(cch, s, e - 2)
                             ELSE PySlice(cch, s - 2, e - 2)]

\* __getitem__(index) on the buffer cch and the index idx
GetItemOf(cch, idx, index) ==
    IF index \notin DOMAIN idx
    THEN [kind |-> "KeyError", index |-> index, source |-> <<>>,
          target |-> <<>>, past_target |-> <<>>]
    ELSE LET s == idx[index][1]
             e == idx[index][2]
             item == PySlice(cch, s, e)
         IN IF include_targets
            THEN [kind |-> "tuple", index |-> index,
                  source |-> IF s = 0
                             THEN <<eos>> \o PySlice(cch, 0, e - 1)
                             ELSE PySlice(cch, s - 1, e - 1),
                  target |-> item,
                  past_target |-> IF s = 0
                                  THEN <<pad, eos>> \o PySlice(cch, 0, e - 2)
                                  ELSE IF s = 1
                                  THEN <<eos>> \o PySlice(cch, 0, e - 2)
                                  ELSE PySlice(cch, s - 2, e - 2)]
            ELSE [kind |-> "item", index |-> index, source |-> <<>>,
                  target |-> item, past_target |-> <<>>]

GetItem(index) == GetItemOf(cache, cache_index, index)

\* (mutant of Get: the entry is taken out of the index as it is served)
Get_Evict(index) ==
    /\ pc = "ready"
    /\ ret' = GetItem(index)
    /\ cache_index' = [id \in DOMAIN cache_index \ {index} |-> cache_index[id]]
    /\ UNCHANGED <<pc, ctorArgs, slice_indices, sizes, walkVars, cache, indices>>

Get(index) ==
    /\ pc = "ready"
    /\ ret' = GetItem(index)
    /\ UNCHANGED <<pc, ctorArgs, slice_indices, sizes, walkVars, cache,
                   cache_index, indices>>

\* ---------------------------------------------------------------------
\* specifications
\* ---------------------------------------------------------------------
BlockIds == 0..(Len(slice_indices) - 1)

DoPrefetch == \E arg \in SeqsUpTo(BlockIds, MaxIds) : Prefetch(arg)

DoGet == \E index \in 0..Len(slice_indices) : Get(index)

InitObject ==
    /\ pc = "new"
    /\ pad = 1
    /\ eos = 2
    /\ slice_indices = <<>>
    /\ sizes = <<>>
    /\ tok_idx = 0
    /\ sz_idx = 0
    /\ curr_size = 0
    /\ cache = <<>>
    /\ cache_index = <<>>
    /\ indices = <<>>
    /\ ret = NoRet

BreakModes == {"None", "none", "complete", "eos", "sentence"}

\* the cache specification: small streams, every break mode
Init ==
    /\ InitObject
    /\ ds_sizes \in SeqsUpTo(0..CacheMaxUnitSize, CacheMaxUnits)
    /\ tokens \in {Stream(ds_sizes, style) : style \in StreamStyles}
    /\ block_size = CacheBlockSize
    /\ break_mode \in BreakModes
    /\ include_targets \in BOOLEAN

Next == Construct \/ DoPrefetch \/ DoGet

Spec == Init /\ [][Next]_vars

\* the block-table specification: larger unit lists, the constructor only
InitIndex ==
    /\ InitObject
    /\ ds_sizes \in SeqsUpTo(0..MaxUnitSize, MaxUnits)
    /\ tokens = Stream(ds_sizes, "sentences")
    /\ block_size \in 1..MaxBlockSize
    /\ break_mode \in BreakModes
    /\ include_targets = FALSE

NextIndex == Construct

SpecIndex == InitIndex /\ [][NextIndex]_vars

\* the constructor runs to its end: a loop iteration that can be taken is taken
SpecIndexFair == SpecIndex /\ WF_vars(NextIndex)

\* the short-stream specification: the stream may hold fewer tokens than
\* ds.sizes announces (reads past its end fail), and prefetch lists are longer
Truncate(q, missing) == SubSeq(q, 1, Len(q) - missing)

InitShort ==
    /\ InitObject
    /\ ds_sizes \in SeqsUpTo(0..ShortMaxUnitSize, ShortMaxUnits)
    /\ tokens \in {Truncate(Stream(ds_sizes, style), missing) :
                      style \in StreamStyles, missing \in 0..MaxMissing}
    /\ block_size = CacheBlockSize
    /\ break_mode \in BreakModes
    /\ include_targets \in BOOLEAN

DoPrefetchLong == \E arg \in SeqsUpTo(BlockIds, LongMaxIds) : Prefetch(arg)

NextShort == Construct \/ DoPrefetchLong \/ DoGet

SpecShort == InitShort /\ [][NextShort]_vars

\* ---------------------------------------------------------------------
\* vocabulary of the properties
\* ---------------------------------------------------------------------
Ready == pc = "ready"
Range(q) == {q[k] : k \in 1..Len(q)}
Distinct(q) == Cardinality(Range(q)) = Len(q)
TotalTokens == SumSeq(ds_sizes)
StartOf(id) == slice_indices[id + 1][1]
EndOf(id) == slice_indices[id + 1][2]
LengthOf(id) == EndOf(id) - StartOf(id)
\* the stream's tokens at global positions [lo, hi)
SubRange(lo, hi) == [k \in 1..(hi - lo) |-> tokens[lo + k]]
\* unit u (1-based) covers the global positions [UnitStart(u), UnitEnd(u))
UnitStart(u) == SumSeq(SubSeq(ds_sizes, 1, u - 1))
UnitEnd(u) == UnitStart(u) + ds_sizes[u]
UnitBoundaries == {0} \cup {UnitEnd(u) : u \in 1..Len(ds_sizes)}
UnitInBlock(u, b) ==
    slice_indices[b][1] <= UnitStart(u) /\ UnitEnd(u) <= slice_indices[b][2]
BlocksOfUnit(u) == {b \in 1..Len(slice_indices) : UnitInBlock(u, b)}
\* first block at 0, each block starts where the previous one ends, last at N
Partition ==
    /\ \A b \in 1..Len(slice_indices) :
          slice_indices[b][1] = (IF b = 1 THEN 0 ELSE slice_indices[b - 1][2])
    /\ (IF slice_indices = <<>> THEN 0
        ELSE slice_indices[Len(slice_indices)][2]) = TotalTokens
Returned == ret.kind \in {"item", "tuple"}

\* ---------------------------------------------------------------------
\* C1  Round trip. After prefetch(ids) with distinct valid ids, get(id) of
\* every id of that call returns as target exactly the stream's tokens
\* [start(id), end(id)), whatever else the call asked for and whatever the
\* earlier calls left in the index.
\* ---------------------------------------------------------------------
RoundTrip ==
    (Ready /\ Distinct(indices)) =>
        /\ \A id \in Range(indices) :
              /\ GetItem(id).kind \in {"item", "tuple"}
              /\ GetItem(id).target = SubRange(StartOf(id), EndOf(id))
        /\ (Returned /\ ret.index \in Range(indices)) =>
              ret.target = SubRange(StartOf(ret.index), EndOf(ret.index))

\* get has returned a block that is not the first of a two-block call, while
\* the index still holds an entry of an earlier call
RoundTripWitness ==
    /\ Ready /\ Distinct(indices) /\ Len(indices) = 2
    /\ Returned /\ ret.index = indices[2]
    /\ Len(ret.target) >= 2
    /\ StartOf(ret.index) # cache_index[ret.index][1]
    /\ DOMAIN cache_index # Range(indices)

\* ---------------------------------------------------------------------
\* C2  Cache validity window. The keys of cache_index are exactly the ids of
\* the most recent prefetch, and get of any other id raises (KeyError).
\* ---------------------------------------------------------------------
CacheWindow ==
    Ready =>
        /\ DOMAIN cache_index = Range(indices)
        /\ \A id \in 0..Len(slice_indices) :
              id \notin Range(indices) => GetItem(id).kind = "KeyError"
        /\ (ret.kind \in {"item", "tuple", "KeyError"}
              /\ ret.index \notin Range(indices)) => ret.kind = "KeyError"

\* ---------------------------------------------------------------------
\* C3  Contiguous policy (break_mode None or 'none'). The table has exactly
\* ceil(N / block_size) blocks, block i is [i*block_size,
\* min((i+1)*block_size, N)), the lengths sum to N and every block but the
\* last has length block_size.
\* ---------------------------------------------------------------------
ContiguousBlocks ==
    (Ready /\ break_mode \in {"None", "none"}) =>
        LET n == Len(slice_indices)
        IN /\ n * block_size >= TotalTokens
           /\ (n > 0 => (n - 1) * block_size < TotalTokens)
           /\ \A i \in 0..(n - 1) :
                 /\ StartOf(i) = i * block_size
                 /\ EndOf(i) = Min((i + 1) * block_size, TotalTokens)
                 /\ (i < n - 1 => sizes[i + 1] = block_size)
           /\ Len(sizes) = n
           /\ SumSeq(sizes) = TotalTokens

\* a table of three blocks or more whose last block is shorter
ContiguousWitness ==
    /\ Ready /\ break_mode = "none"
    /\ Len(slice_indices) >= 3
    /\ sizes[Len(sizes)] < block_size
    /\ Len(ds_sizes) >= 2

\* ---------------------------------------------------------------------
\* C4  CompleteUnits policy ('complete'), as claimed: every unit, the units
\* of size zero included, lies in exactly one block, and every block
\* boundary is a unit boundary.
\* ---------------------------------------------------------------------
EveryUnitInOneBlock ==
    (Ready /\ break_mode = "complete") =>
        /\ \A u \in 1..Len(ds_sizes) : Cardinality(BlocksOfUnit(u)) = 1
        /\ \A b \in 1..Len(slice_indices) :
              /\ slice_indices[b][1] \in UnitBoundaries
              /\ slice_indices[b][2] \in UnitBoundaries

\* C4 as amended: every unit of non-zero size lies in exactly one block, every
\* block boundary is a unit boundary and the blocks together cover [0, N); a
\* unit of size zero holds no token and may lie in no block or on the border
\* of two.
NonEmptyUnitInOneBlock ==
    (Ready /\ break_mode = "complete") =>
        /\ \A u \in 1..Len(ds_sizes) :
              ds_sizes[u] > 0 => Cardinality(BlocksOfUnit(u)) = 1
        /\ \A b \in 1..Len(slice_indices) :
              /\ slice_indices[b][1] \in UnitBoundaries
              /\ slice_indices[b][2] \in UnitBoundaries
        /\ Partition

\* two blocks or more, one of them holding two non-empty units, and an empty
\* unit among the units
CompleteUnitsWitness ==
    /\ Ready /\ break_mode = "complete"
    /\ Len(slice_indices) >= 2
    /\ \E u \in 1..Len(ds_sizes) : ds_sizes[u] = 0
    /\ \E u \in 1..(Len(ds_sizes) - 1) :
          /\ ds_sizes[u] > 0 /\ ds_sizes[u + 1] > 0
          /\ BlocksOfUnit(u) = BlocksOfUnit(u + 1)

\* ---------------------------------------------------------------------
\* C5  CompleteUnits policy: a block longer than block_size is a single
\* unit whose own size exceeds block_size: its range is that unit's range
\* (units of size zero taken along with it add no token).
\* ---------------------------------------------------------------------
OversizedIsSingleUnit ==
    (Ready /\ break_mode = "complete") =>
        \A b \in 1..Len(slice_indices) :
            sizes[b] > block_size =>
                /\ \E u \in 1..Len(ds_sizes) :
                      /\ ds_sizes[u] > block_size
                      /\ UnitStart(u) = slice_indices[b][1]
                      /\ UnitEnd(u) = slice_indices[b][2]
                /\ Cardinality({u \in 1..Len(ds_sizes) :
                                  ds_sizes[u] > 0 /\ UnitInBlock(u, b)}) = 1

\* the example of the claim: sizes = [5], block_size = 3 gives (0, 5)
OversizedWitness ==
    /\ Ready /\ break_mode = "complete"
    /\ ds_sizes = <<5>> /\ block_size = 3
    /\ slice_indices = <<<<0, 5>>>>

\* ---------------------------------------------------------------------
\* C6  UnitPerBlock policy ('eos'). There is one block per unit of non-zero
\* size; the j-th block is [c, c + size) of the j-th such unit, c being the
\* sum of the sizes of all units before it; block_size does not matter.
\* ---------------------------------------------------------------------
NonEmptyUnits ==
    LET keep(u) == ds_sizes[u] > 0
    IN SelectSeq([u \in 1..Len(ds_sizes) |-> u], keep)

UnitPerBlock ==
    (Ready /\ break_mode = "eos") =>
        /\ Len(slice_indices) = Cardinality({u \in 1..Len(ds_sizes) : ds_sizes[u] > 0})
        /\ Len(slice_indices) = Len(NonEmptyUnits)
        /\ \A j \in 1..Len(slice_indices) :
              slice_indices[j] = <<UnitStart(NonEmptyUnits[j]),
                                   UnitStart(NonEmptyUnits[j]) + ds_sizes[NonEmptyUnits[j]]>>
        /\ \A bs \in 1..(MaxBlockSize + 1) : EosSlices(ds_sizes, bs) = slice_indices

\* empty units before and between two non-empty ones, the second larger than
\* block_size
UnitPerBlockWitness ==
    /\ Ready /\ break_mode = "eos"
    /\ Len(ds_sizes) = 4 /\ ds_sizes[1] = 0 /\ ds_sizes[3] = 0
    /\ ds_sizes[2] > 0 /\ ds_sizes[4] > block_size
    /\ Len(slice_indices) = 2

\* ---------------------------------------------------------------------
\* C7  UnitPerBlock boundary case, as claimed: sizes = [0,2,0,3] gives the
\* table [(2,4),(4,7)].
\* ---------------------------------------------------------------------
EosExampleAsClaimed ==
    (Ready /\ break_mode = "eos" /\ ds_sizes = <<0, 2, 0, 3>>) =>
        slice_indices = <<<<2, 4>>, <<4, 7>>>>

\* C7 as amended: sizes = [0,2,0,3] gives the table [(0,2),(2,5)]; the empty
\* units move no block.
EosExample ==
    (Ready /\ break_mode = "eos" /\ ds_sizes = <<0, 2, 0, 3>>) =>
        /\ slice_indices = <<<<0, 2>>, <<2, 5>>>>
        /\ sizes = <<2, 3>>

EosExampleWitness ==
    /\ Ready /\ break_mode = "eos" /\ ds_sizes = <<0, 2, 0, 3>>
    /\ Len(slice_indices) = 2

\* ---------------------------------------------------------------------
\* C8  Block table invariant, all three policies. Every block is non-empty,
\* the blocks are strictly ordered by start and do not overlap, the first
\* starts at 0, each starts where the previous one ends, the last ends at N,
\* and block_length(id) = end(id) - start(id).
\* ---------------------------------------------------------------------
BlockTableInvariant ==
    Ready =>
        /\ \A b \in 1..Len(slice_indices) :
              slice_indices[b][1] < slice_indices[b][2]
        /\ \A a, b \in 1..Len(slice_indices) :
              a < b => /\ slice_indices[a][1] < slice_indices[b][1]
                       /\ slice_indices[a][2] <= slice_indices[b][1]
        /\ Partition
        /\ Len(sizes) = Len(slice_indices)
        /\ \A id \in BlockIds : sizes[id + 1] = EndOf(id) - StartOf(id)

\* a 'complete' table of three blocks of different lengths over units that
\* include an empty one
BlockTableWitness ==
    /\ Ready /\ break_mode = "complete"
    /\ Len(slice_indices) = 3
    /\ sizes[1] # sizes[2] /\ sizes[2] # sizes[3]
    /\ \E u \in 1..Len(ds_sizes) : ds_sizes[u] = 0

\* ---------------------------------------------------------------------
\* C9  Buffer layout. After prefetch(ids) with distinct valid ids the buffer
\* is as long as the requested blocks together, and the ranges of the
\* requested ids, in ascending id order, follow each other without gap or
\* overlap from offset 0 to the end of the buffer, each as long as its block.
\* ---------------------------------------------------------------------
RECURSIVE SumLengths(_)
SumLengths(ids) ==
    IF ids = {} THEN 0
    ELSE LET id == CHOOSE x \in ids : TRUE
         IN LengthOf(id) + SumLengths(ids \ {id})

BufferLayout ==
    (Ready /\ Distinct(indices)) =>
        LET ids == Range(indices)
        IN /\ Len(cache) = SumLengths(ids)
           /\ \A id \in ids :
                 /\ id \in DOMAIN cache_index
                 /\ cache_index[id][2] - cache_index[id][1] = LengthOf(id)
                 /\ cache_index[id][1] =
                       SumLengths({other \in ids : other < id})
                 /\ (\A other \in ids : other <= id) =>
                       cache_index[id][2] = Len(cache)
           /\ \A k \in 1..Len(cache) : cache[k] # 0

\* a call that listed two blocks of different lengths in descending order
BufferLayoutWitness ==
    /\ Ready /\ ret.kind = "None"
    /\ Len(indices) = 2 /\ indices[1] < indices[2]
    /\ LengthOf(indices[1]) # LengthOf(indices[2])
    /\ cache_index[indices[2]][1] = LengthOf(indices[1])
    /\ StartOf(indices[2]) > EndOf(indices[1])

\* ---------------------------------------------------------------------
\* C10  Duplicate ids. A prefetch that lists an id more than once caches one
\* copy of that block: buffer and index are those of the same call with the
\* duplicates removed (buffer length = sum of the lengths of the distinct
\* ids).
\* ---------------------------------------------------------------------
DuplicatesCachedOnce ==
    Ready =>
        LET ids == Range(indices)
        IN /\ Len(cache) = SumLengths(ids)
           /\ \A id \in ids :
                 /\ id \in DOMAIN cache_index
                 /\ cache_index[id] =
                       <<SumLengths({other \in ids : other < id}),
                         SumLengths({other \in ids : other <= id})>>

\* ---------------------------------------------------------------------
\* C11  Failure atomicity of prefetch. A prefetch in which a read from the
\* stream failed leaves the cache either exactly as it was before the call
\* (same buffer, same index) or empty (the index has no key).
\* ---------------------------------------------------------------------
FailureAtomic ==
    [][ret'.kind = "OutOfRange" =>
          \/ (cache' = cache /\ cache_index' = cache_index)
          \/ DOMAIN cache_index' = {}]_vars

\* ---------------------------------------------------------------------
\* C12  Source view. With include_targets, for an id cached at the buffer
\* range [s, e): source[k] = target[k-1] for every k >= 1, and source[0] is the
\* buffer token at s-1 when s > 0 and the end-of-sequence sentinel when s = 0.
\* ---------------------------------------------------------------------
\* the ids whose recorded range lies in the current buffer
InBuffer == {id \in DOMAIN cache_index : cache_index[id][2] <= Len(cache)}

SourceViewOf(id) ==
    LET s == cache_index[id][1]
        e == cache_index[id][2]
        got == GetItem(id)
    IN /\ got.kind = "tuple"
       /\ Len(got.source) = e - s
       /\ \A k \in 1..(e - s - 1) : got.source[k + 1] = got.target[k]
       /\ got.source[1] = (IF s > 0 THEN cache[s] ELSE eos)

SourceView ==
    (Ready /\ include_targets) =>
        /\ \A id \in InBuffer : SourceViewOf(id)
        /\ (ret.kind = "tuple" /\ ret.index \in InBuffer) =>
              ret = GetItem(ret.index)

\* get has returned the views of a block of two tokens cached at offset 1 or
\* more, and of one cached at offset 0
SourceViewWitness ==
    /\ Ready /\ ret.kind = "tuple" /\ ret.index \in InBuffer
    /\ Len(ret.target) = 2
    /\ cache_index[ret.index][1] >= 1
    /\ ret.source[1] # eos
    /\ \E id \in InBuffer : cache_index[id][1] = 0

\* ---------------------------------------------------------------------
\* C13  Past-target view. With include_targets, for an id cached at [s, e):
\* past_target[k] = target[k-2] for every k >= 2; if s = 0 it starts with pad,
\* eos; if s = 1 it starts with eos, buffer[0]; if s >= 2 it is exactly
\* buffer[s-2 : e-2].
\* ---------------------------------------------------------------------
PastTargetViewOf(id) ==
    LET s == cache_index[id][1]
        e == cache_index[id][2]
        got == GetItem(id)
        pt == got.past_target
    IN /\ got.kind = "tuple"
       /\ \A k \in 3..Len(pt) : k - 2 <= Len(got.target) /\ pt[k] = got.target[k - 2]
       /\ s = 0 => pt[1] = pad /\ (Len(pt) >= 2 => pt[2] = eos)
       /\ s = 1 => pt[1] = eos /\ (Len(pt) >= 2 => pt[2] = cache[1])
       /\ s >= 2 => pt = [k \in 1..(e - s) |-> cache[s - 2 + k]]

PastTargetView ==
    (Ready /\ include_targets) => \A id \in InBuffer : PastTargetViewOf(id)

\* ---------------------------------------------------------------------
\* C14  Idempotence of prefetch. Right after prefetch(ids) has returned, a
\* second prefetch of the same ids gives, for every id of the call, the same
\* get result (target, and source and past_target with include_targets).
\* ---------------------------------------------------------------------
IdempotentPrefetch ==
    (Ready /\ ret.kind = "None") =>
        \A again \in {PrefetchResult(indices, 0)} :
            /\ ~again.raised
            /\ \A id \in Range(indices) :
                  GetItemOf(again.cache, again.cache_index, id) = GetItem(id)

\* a call of two blocks has returned, with include_targets, on a cache that
\* holds an entry of an earlier call
IdempotentWitness ==
    /\ Ready /\ ret.kind = "None" /\ include_targets
    /\ Len(indices) = 2
    /\ DOMAIN cache_index # Range(indices)
    /\ Len(cache) >= 3

\* ---------------------------------------------------------------------
\* C15  Frame. Once built, the block table never changes: no prefetch or get,
\* returning or raising, changes the number of blocks or any start, end or
\* length; and get changes neither the buffer nor the index.
\* ---------------------------------------------------------------------
TableFrame ==
    [][Ready =>
          /\ pc' = "ready"
          /\ slice_indices' = slice_indices
          /\ sizes' = sizes
          /\ (ret'.kind \in {"item", "tuple", "KeyError"} =>
                 cache' = cache /\ cache_index' = cache_index)]_vars

\* a prefetch has raised after an earlier one had filled the index, on a
\* table of two blocks
TableFrameWitness ==
    /\ Ready /\ ret.kind = "OutOfRange"
    /\ Len(slice_indices) = 2
    /\ DOMAIN cache_index # {}
    /\ sizes = BlockLengths(slice_indices)

\* ---------------------------------------------------------------------
\* C16  CompleteUnits is greedy. A block is closed only when the next unit
\* would overflow it, and accumulation restarts with that unit: for consecutive
\* blocks the length of the earlier plus the size of the first unit of the
\* later exceeds block_size; sizes = [3,3,3], block_size = 4 gives
\* [(0,3),(3,6),(6,9)].
\* ---------------------------------------------------------------------
\* the unit that opens block b: the non-empty unit starting where b starts
FirstUnitOf(b) ==
    CHOOSE u \in 1..Len(ds_sizes) :
        ds_sizes[u] > 0 /\ UnitStart(u) = slice_indices[b][1]

GreedyTable ==
    (Ready /\ break_mode = "complete") =>
        /\ \A b \in 1..(Len(slice_indices) - 1) :
              /\ \E u \in 1..Len(ds_sizes) :
                    ds_sizes[u] > 0 /\ UnitStart(u) = slice_indices[b + 1][1]
              /\ sizes[b] + ds_sizes[FirstUnitOf(b + 1)] > block_size
        /\ (ds_sizes = <<3, 3, 3>> /\ block_size = 4) =>
              slice_indices = <<<<0, 3>>, <<3, 6>>, <<6, 9>>>>

\* an iteration that closes a block inside the loop
ClosesBlock == pc = "walk" /\ pc' = "walk" /\ slice_indices' # slice_indices

GreedyStep ==
    ClosesBlock =>
        /\ curr_size > 0
        /\ curr_size + ds_sizes[sz_idx + 1] > block_size
        /\ slice_indices' = Append(slice_indices, <<tok_idx, tok_idx + curr_size>>)
        /\ tok_idx' = tok_idx + curr_size
        /\ sz_idx' = sz_idx
        /\ curr_size' = 0

Greedy == []GreedyTable /\ [][GreedyStep]_vars

\* the example of the claim
GreedyWitness ==
    /\ Ready /\ break_mode = "complete"
    /\ ds_sizes = <<3, 3, 3>> /\ block_size = 4
    /\ Len(slice_indices) = 3

\* ---------------------------------------------------------------------
\* C17  Adjacency. With include_targets, when id-1 and id are both in the
\* prefetch call, get(id).source[0] is the stream's token at position
\* start(id) - 1, whatever else the call lists.
\* ---------------------------------------------------------------------
Adjacency ==
    (Ready /\ include_targets /\ ret.kind = "None") =>
        \A id \in Range(indices) :
            (id >= 1 /\ (id - 1) \in Range(indices)) =>
                /\ Len(GetItem(id).source) >= 1
                /\ GetItem(id).source[1] = tokens[StartOf(id)]

\* ---------------------------------------------------------------------
\* C18  Sentinel substitution follows the buffer position. For an id of the
\* most recent prefetch (distinct ids), source[0] is the substituted
\* end-of-sequence sentinel exactly when id is the smallest id of the call,
\* block 0 of the stream or not; for every other id it is the stream token
\* before the block that precedes it in the buffer ends.
\* ---------------------------------------------------------------------
SmallestOfCall(id) == \A other \in Range(indices) : id <= other
\* the id placed right before id in the buffer
PrevOfCall(id) ==
    CHOOSE p \in Range(indices) :
        p < id /\ \A other \in Range(indices) : other < id => other <= p

SentinelAtBufferStart ==
    (Ready /\ include_targets /\ Distinct(indices)) =>
        \A id \in Range(indices) :
            /\ (cache_index[id][1] = 0) <=> SmallestOfCall(id)
            /\ Len(GetItem(id).source) = LengthOf(id)
            /\ SmallestOfCall(id) => GetItem(id).source[1] = eos
            /\ ~SmallestOfCall(id) =>
                  GetItem(id).source[1] = tokens[EndOf(PrevOfCall(id))]
            /\ (\A k \in 1..Len(tokens) : tokens[k] # eos) =>
                  (GetItem(id).source[1] = eos <=> SmallestOfCall(id))

\* get has returned the sentinel for a block that is not block 0 of the
\* stream, the smallest of a call of two
SentinelWitness ==
    /\ Ready /\ ret.kind = "tuple" /\ Distinct(indices) /\ Len(indices) = 2
    /\ ret.index = indices[1] /\ ret.index >= 1
    /\ ret.source[1] = eos
    /\ \A k \in 1..Len(tokens) : tokens[k] # eos

\* ---------------------------------------------------------------------
\* C19  Forward progress of the CompleteUnits walk. The loop ends for every
\* unit list and block_size, and an iteration that closes a block without
\* taking a unit is followed by one that takes a unit.
\* ---------------------------------------------------------------------
CloseThenTake ==
    ClosesBlock =>
        /\ sz_idx' < Len(ds_sizes)
        /\ TakeUnit(curr_size', ds_sizes[sz_idx' + 1], block_size)

ForwardProgress ==
    /\ (pc = "walk") ~> (pc = "ready")
    /\ [][CloseThenTake]_vars

\* the loop has ended on a list with a unit larger than block_size and an
\* empty unit, after closing at least one block
ForwardProgressWitness ==
    /\ Ready /\ break_mode = "complete"
    /\ Len(slice_indices) >= 3
    /\ \E u \in 1..Len(ds_sizes) : ds_sizes[u] > block_size
    /\ \E u \in 1..Len(ds_sizes) : ds_sizes[u] = 0

\* ---------------------------------------------------------------------
\* C20  Equal lengths. With include_targets, get(id) of an id of the most
\* recent prefetch returns source, target and past_target of one length,
\* block_length(id), for every block length and buffer offset.
\* ---------------------------------------------------------------------
EqualLengths ==
    (Ready /\ include_targets /\ Distinct(indices)) =>
        \A id \in Range(indices) :
            /\ Len(GetItem(id).target) = sizes[id + 1]
            /\ Len(GetItem(id).source) = sizes[id + 1]
            /\ Len(GetItem(id).past_target) = sizes[id + 1]

====
